---- MODULE Spec2Model ----
(***************************************************************************)
(* FinBot teaching demo (main.py): one Flask route, demo_handler, that     *)
(* fetches a quote per position of a fixed portfolio, builds a report,     *)
(* asks a generative model for a summary and either returns the report or  *)
(* forwards it to Telegram.                                                *)
(*                                                                         *)
(* Conventions of the model                                                *)
(*  - Text is ASCII: the icons of the source are written "(green)",        *)
(*    "(red)", "(white)" and the Chinese literals are glossed in English.  *)
(*  - The report and the data context are kept as the sequence of chunks   *)
(*    that the source appends with +=; the text is their concatenation.    *)
(*  - A Python float is [kind |-> "float", v |-> hundredths], NaN is       *)
(*    [kind |-> "nan"], None is [kind |-> "None"].  Quotes are drawn from  *)
(*    QuoteValues, whose members keep ten times the profit away from a     *)
(*    half, where the binary rounding error of the float decides the       *)
(*    printed digit.                                                       *)
(*  - A call returns [raised |-> ..., value |-> ..., calls |-> ...]:       *)
(*    whether an exception leaves the callee, its return value and the     *)
(*    outbound operations it performed, in order.                          *)
(***************************************************************************)
EXTENDS Integers, Sequences, FiniteSets, TLC

\* Number of requests the server handles in one behaviour.
MaxRequests == 2

VARIABLES
    TELEGRAM_TOKEN,   \* module global, os.getenv('TELEGRAM_TOKEN')
    CHAT_ID,          \* module global, os.getenv('TELEGRAM_CHAT_ID')
    GEMINI_KEY,       \* module global, os.getenv('GEMINI_API_KEY')
    pc,               \* position of the handler
    send,             \* request.args.get('send') of the request in flight
    i,                \* index of the next position of demo_portfolio
    prices,           \* the values get_stock_price_safe returned, in order
    report,           \* local report, as chunks
    ai_data_context,  \* local ai_data_context, as chunks
    lines,            \* what each iteration of the loop formatted
    calls,            \* operations performed for the request, in order
    response,         \* the (body, status) returned for the request
    handled           \* requests received so far

vars == <<TELEGRAM_TOKEN, CHAT_ID, GEMINI_KEY, pc, send, i, prices, report,
          ai_data_context, lines, calls, response, handled>>

----------------------------------------------------------------------------
\* Python values

\* None for string-valued optionals (os.getenv, request.args.get)
None == "None"

\* not x, for x a str or None
NotStr(x) == x = None \/ x = ""

PyNone == [kind |-> "None", v |-> 0]
NaN == [kind |-> "nan", v |-> 0]
Float(c) == [kind |-> "float", v |-> c]

\* not x, for x a float or None: None and 0.0 are falsy, NaN is truthy
NotNum(x) == x.kind = "None" \/ (x.kind = "float" /\ x.v = 0)

\* x > 0: every comparison with NaN is False
GtZero(x) == x.kind = "float" /\ x.v > 0

\* x >= 0
GeZero(x) == x.kind = "float" /\ x.v >= 0

Abs(n) == IF n < 0 THEN -n ELSE n

Digits == <<"0", "1", "2", "3", "4", "5", "6", "7", "8", "9">>

RECURSIVE NatStr(_)
NatStr(n) == IF n < 10 THEN Digits[n + 1]
             ELSE NatStr(n \div 10) \o Digits[(n % 10) + 1]

\* f"{x:.2f}" for x of c hundredths
FormatF2(c) ==
    (IF c < 0 THEN "-" ELSE "") \o NatStr(Abs(c) \div 100) \o "."
        \o Digits[((Abs(c) \div 10) % 10) + 1] \o Digits[(Abs(c) % 10) + 1]

\* f"{x}" (repr) for x of c hundredths: shortest digits, at least one decimal
ReprFloat(c) ==
    (IF c < 0 THEN "-" ELSE "") \o NatStr(Abs(c) \div 100) \o "."
        \o Digits[((Abs(c) \div 10) % 10) + 1]
        \o (IF Abs(c) % 10 = 0 THEN "" ELSE Digits[(Abs(c) % 10) + 1])

\* The tenths |num/den| rounds to, ties to even (den > 0)
RoundTenths(num, den) ==
    LET a == 10 * Abs(num)
        q == a \div den
        r == a % den
    IN  IF 2 * r > den THEN q + 1
        ELSE IF 2 * r < den THEN q
        ELSE IF q % 2 = 0 THEN q ELSE q + 1

\* The text of t tenths with the sign Python prints: "-" for a negative
\* value (also when it rounds to zero), nothing otherwise
TenthsText(neg, t) ==
    (IF neg THEN "-" ELSE "") \o NatStr(t \div 10) \o "." \o Digits[(t % 10) + 1]

\* f"{x:.1f}" for x = num/den
FormatF1(num, den) == TenthsText(num < 0, RoundTenths(num, den))

----------------------------------------------------------------------------
\* Literals of the source

REPORT_HEADER == "** FinBot teaching demo report **\n\n"
AI_HEADER == "\n(robot) ** AI data summary **:\n"
DISCLAIMER == "\n\n_teaching project, data for reference only_"
AI_KEY_WARNING == "(warning) AI key not set, cannot analyse."
SENT_BODY == "Telegram notification sent"

\* instruction of get_ai_analysis_safe: role framing and three rules
instruction ==
    "You are a teaching assistant for financial data. Write an objective summary in Traditional Chinese.\n"
    \o "(warning) rules:\n"
    \o "1. describe the facts of the data only.\n"
    \o "2. never give buy or sell advice or predict prices.\n"
    \o "3. keep a neutral, academic tone.\n"
    \o "data:\n"

\* demo_portfolio of demo_handler
demo_portfolio ==
    << [symbol |-> "2330.TW", cost |-> 600, shares |-> 100],
       [symbol |-> "AAPL", cost |-> 150, shares |-> 10] >>

Call(op, arg) == [op |-> op, arg |-> arg]

Ret(raised, value, cs) == [raised |-> raised, value |-> value, calls |-> cs]

----------------------------------------------------------------------------
\* The environment: what the process and the outside world can present

\* os.getenv of a credential: unset, set to the empty string, or set
EnvValues == {None, "", "secret"}

\* request.args.get('send'): absent, or the first value given
SendArgs == {None, "true", "True", "false"}

\* Quotes, in hundredths
QuoteValues == {66000, 59999, 16000, 14200, -3763}

\* What fast_info.last_price can evaluate to
FastValues == {PyNone, Float(0), NaN} \cup {Float(c) : c \in QuoteValues}

\* What hist['Close'].iloc[-1] can evaluate to
CloseValues == {Float(60000), Float(15000), Float(0), NaN}

Up(tr, fr, f, hr, he, c) ==
    [ticker_raises |-> tr, fast_raises |-> fr, fast |-> f,
     hist_raises |-> hr, hist_empty |-> he, close |-> c]

\* Behaviours of the quote provider during one get_stock_price_safe
Upstreams ==
    {Up(TRUE, FALSE, PyNone, FALSE, TRUE, PyNone),
     Up(FALSE, TRUE, PyNone, FALSE, TRUE, PyNone)}
    \cup {Up(FALSE, FALSE, f, FALSE, TRUE, PyNone) : f \in FastValues}
    \cup {Up(FALSE, FALSE, f, TRUE, TRUE, PyNone) : f \in {PyNone, Float(0)}}
    \cup {Up(FALSE, FALSE, f, FALSE, FALSE, c) :
              f \in {PyNone, Float(0)}, c \in CloseValues}

\* Behaviours of model.generate_content(...).text
Generations ==
    {[raises |-> FALSE, text |-> "generated summary", err |-> ""],
     [raises |-> TRUE, text |-> "", err |-> "503 unavailable"]}

\* Behaviours of requests.post
Posts == {"ok", "raise"}

----------------------------------------------------------------------------
\* Tool functions

\* send_telegram that posts a second time when the first POST raises
send_telegram_retry(message, post) ==
    IF NotStr(TELEGRAM_TOKEN) \/ NotStr(CHAT_ID)
    THEN Ret(FALSE, None, << Call("logger.warning", <<"send_telegram">>) >>)
    ELSE IF post = "raise"
    THEN Ret(FALSE, None, << Call("requests.post", message),
                             Call("requests.post", message) >>)
    ELSE Ret(FALSE, None, << Call("requests.post", message) >>)

\* send_telegram without the try/except around the POST
send_telegram_uncaught(message, post) ==
    IF NotStr(TELEGRAM_TOKEN) \/ NotStr(CHAT_ID)
    THEN Ret(FALSE, None, << Call("logger.warning", <<"send_telegram">>) >>)
    ELSE Ret(post = "raise", None, << Call("requests.post", message) >>)

\* send_telegram that skips only when both credentials are missing
send_telegram_and(message, post) ==
    IF NotStr(TELEGRAM_TOKEN) /\ NotStr(CHAT_ID)
    THEN Ret(FALSE, None, << Call("logger.warning", <<"send_telegram">>) >>)
    ELSE IF post = "raise"
    THEN Ret(FALSE, None, << Call("requests.post", message),
                             Call("logger.error", <<"send_telegram">>) >>)
    ELSE Ret(FALSE, None, << Call("requests.post", message) >>)

\* send_telegram that raises when a credential is missing
send_telegram_strict(message, post) ==
    IF NotStr(TELEGRAM_TOKEN) \/ NotStr(CHAT_ID)
    THEN Ret(TRUE, None, <<>>)
    ELSE IF post = "raise"
    THEN Ret(FALSE, None, << Call("requests.post", message),
                             Call("logger.error", <<"send_telegram">>) >>)
    ELSE Ret(FALSE, None, << Call("requests.post", message) >>)

\* send_telegram(message), with the behaviour of requests.post
send_telegram(message, post) ==
    IF NotStr(TELEGRAM_TOKEN) \/ NotStr(CHAT_ID)
    THEN Ret(FALSE, None, << Call("logger.warning", <<"send_telegram">>) >>)
    ELSE IF post = "raise"
    THEN Ret(FALSE, None, << Call("requests.post", message),
                             Call("logger.error", <<"send_telegram">>) >>)
    ELSE Ret(FALSE, None, << Call("requests.post", message) >>)

\* get_stock_price_safe that asks for the fast quote again when it raised
get_stock_price_safe_retry(ticker, up) ==
    LET enter == << Call("time.sleep", <<>>), Call("yf.Ticker", <<ticker>>) >>
        warn == << Call("logger.warning", <<ticker>>) >>
        fast == << Call("fast_info.last_price", <<ticker>>) >>
        hist == << Call("history", <<ticker>>) >>
        price == IF NotNum(up.fast) /\ ~up.hist_empty THEN up.close ELSE up.fast
        result == IF NotNum(price) THEN Float(0) ELSE price
    IN  IF up.ticker_raises THEN Ret(FALSE, Float(0), enter \o warn)
        ELSE IF up.fast_raises
        THEN Ret(FALSE, Float(0), enter \o fast \o fast \o warn)
        ELSE IF ~NotNum(up.fast) THEN Ret(FALSE, result, enter \o fast)
        ELSE IF up.hist_raises
        THEN Ret(FALSE, Float(0), enter \o fast \o hist \o warn)
        ELSE Ret(FALSE, result, enter \o fast \o hist)

\* get_stock_price_safe(ticker), with the behaviour of the provider
get_stock_price_safe(ticker, up) ==
    LET enter == << Call("time.sleep", <<>>), Call("yf.Ticker", <<ticker>>) >>
        warn == << Call("logger.warning", <<ticker>>) >>
        fast == << Call("fast_info.last_price", <<ticker>>) >>
        hist == << Call("history", <<ticker>>) >>
        price == IF NotNum(up.fast) /\ ~up.hist_empty THEN up.close ELSE up.fast
        result == IF NotNum(price) THEN Float(0) ELSE price
    IN  IF up.ticker_raises THEN Ret(FALSE, Float(0), enter \o warn)
        ELSE IF up.fast_raises THEN Ret(FALSE, Float(0), enter \o fast \o warn)
        ELSE IF ~NotNum(up.fast) THEN Ret(FALSE, result, enter \o fast)
        ELSE IF up.hist_raises
        THEN Ret(FALSE, Float(0), enter \o fast \o hist \o warn)
        ELSE Ret(FALSE, result, enter \o fast \o hist)

\* get_ai_analysis_safe without the check of GEMINI_KEY
get_ai_analysis_safe_nocheck(data_summary, gen) ==
    LET sent == << Call("generate_content", <<instruction>> \o data_summary) >>
    IN  IF gen.raises
        THEN Ret(FALSE, "AI analysis temporarily unavailable (" \o gen.err \o ")", sent)
        ELSE Ret(FALSE, gen.text, sent)

\* get_ai_analysis_safe that skips the model when there is no data
get_ai_analysis_safe_skipempty(data_summary, gen) ==
    IF NotStr(GEMINI_KEY) THEN Ret(FALSE, AI_KEY_WARNING, <<>>)
    ELSE IF data_summary = <<>> THEN Ret(FALSE, "no data", <<>>)
    ELSE LET sent == << Call("generate_content", <<instruction>> \o data_summary) >>
         IN  IF gen.raises
             THEN Ret(FALSE, "AI analysis temporarily unavailable (" \o gen.err \o ")", sent)
             ELSE Ret(FALSE, gen.text, sent)

\* get_ai_analysis_safe(data_summary), with the behaviour of the model call
get_ai_analysis_safe(data_summary, gen) ==
    IF NotStr(GEMINI_KEY) THEN Ret(FALSE, AI_KEY_WARNING, <<>>)
    ELSE LET sent == << Call("generate_content", <<instruction>> \o data_summary) >>
         IN  IF gen.raises
             THEN Ret(FALSE, "AI analysis temporarily unavailable (" \o gen.err \o ")", sent)
             ELSE Ret(FALSE, gen.text, sent)

----------------------------------------------------------------------------
\* demo_handler

\* if price > 0 written price >= 0
HasQuote_ge(price) == GeZero(price)

\* if price > 0
HasQuote(price) == GtZero(price)

\* The profit taken relative to the price instead of the cost
Profit_over_price(c, cost) == [num |-> (c - 100 * cost) * 100, den |-> c]

\* profit = (price - item['cost']) / item['cost'] * 100, as the fraction
\* num/den, for a price of c hundredths
Profit(c, cost) == [num |-> c - 100 * cost, den |-> cost]

\* icon = green if profit >= 0 else red
Icon(profit) == IF profit.num >= 0 THEN "(green)" ELSE "(red)"

\* The report line of a position with a quote
QuoteLine(icon, symbol, c, profit) ==
    icon \o " " \o symbol \o ": price " \o FormatF2(c)
        \o " (P/L " \o FormatF1(profit.num, profit.den) \o "%)\n"

\* The data context line of a position with a quote
ContextLine(symbol, c, cost) ==
    symbol \o ": price" \o ReprFloat(c) \o ", cost" \o NatStr(cost) \o "\n"

\* The report line of a position without a quote
NoQuoteLine(symbol) == "(white) " \o symbol \o ": no quote available\n"

\* What Flask answers when an exception leaves the view function
ServerError == [body |-> <<"Internal Server Error">>, status |-> 500]

\* One iteration of the loop over demo_portfolio, for a fetched price
LoopBody(item, price) ==
    IF HasQuote(price)
    THEN LET profit == Profit(price.v, item.cost)
             icon == Icon(profit)
             line == QuoteLine(icon, item.symbol, price.v, profit)
         IN  [report |-> <<line>>,
              context |-> << ContextLine(item.symbol, price.v, item.cost) >>,
              line |-> [symbol |-> item.symbol, cost |-> item.cost,
                        price |-> price, icon |-> icon, profit |-> <<profit>>,
                        shown |-> FormatF1(profit.num, profit.den),
                        chunk |-> line]]
    ELSE [report |-> << NoQuoteLine(item.symbol) >>,
          context |-> <<>>,
          line |-> [symbol |-> item.symbol, cost |-> item.cost,
                    price |-> price, icon |-> "(white)", profit |-> <<>>,
                    shown |-> "", chunk |-> NoQuoteLine(item.symbol)]]

TypeOK ==
    /\ TELEGRAM_TOKEN \in EnvValues /\ CHAT_ID \in EnvValues
    /\ GEMINI_KEY \in EnvValues
    /\ pc \in {"idle", "loop", "analysis", "reply", "responded"}
    /\ send \in SendArgs
    /\ i \in 1..(Len(demo_portfolio) + 1)
    /\ handled \in 0..MaxRequests

Init ==
    /\ TELEGRAM_TOKEN \in EnvValues
    /\ CHAT_ID \in EnvValues
    /\ GEMINI_KEY \in EnvValues
    /\ pc = "idle"
    /\ send = None
    /\ i = 1
    /\ prices = <<>>
    /\ report = <<>>
    /\ ai_data_context = <<>>
    /\ lines = <<>>
    /\ calls = <<>>
    /\ response = <<>>
    /\ handled = 0

Env == <<TELEGRAM_TOKEN, CHAT_ID, GEMINI_KEY>>

\* A request arrives; the handler initialises report and ai_data_context
Receive(arg) ==
    /\ pc \in {"idle", "responded"}
    /\ handled < MaxRequests
    /\ handled' = handled + 1
    /\ send' = arg
    /\ i' = 1
    /\ prices' = <<>>
    /\ report' = <<REPORT_HEADER>>
    /\ ai_data_context' = <<>>
    /\ lines' = <<>>
    /\ calls' = << Call("demo_handler", <<>>) >>
    /\ response' = <<>>
    /\ pc' = "loop"
    /\ UNCHANGED Env

\* for item in demo_portfolio: one iteration
Fetch(up) ==
    /\ pc = "loop"
    /\ i <= Len(demo_portfolio)
    /\ LET item == demo_portfolio[i]
           got == get_stock_price_safe(item.symbol, up)
           body == LoopBody(item, got.value)
           entered == Append(calls, Call("get_stock_price_safe", <<item.symbol>>))
       IN  /\ calls' = entered \o got.calls
           /\ IF got.raised
              THEN /\ response' = <<ServerError>>
                   /\ pc' = "responded"
                   /\ UNCHANGED <<i, prices, report, ai_data_context, lines>>
              ELSE /\ prices' = Append(prices, got.value)
                   /\ report' = report \o body.report
                   /\ ai_data_context' = ai_data_context \o body.context
                   /\ lines' = Append(lines, body.line)
                   /\ i' = i + 1
                   /\ pc' = IF i = Len(demo_portfolio) THEN "analysis" ELSE "loop"
                   /\ UNCHANGED response
    /\ UNCHANGED <<Env, send, handled>>

\* The AI summary and the disclaimer are appended to the report
Analyse(gen) ==
    /\ pc = "analysis"
    /\ LET got == get_ai_analysis_safe(ai_data_context, gen)
           entered == Append(calls, Call("get_ai_analysis_safe", ai_data_context))
       IN  /\ calls' = entered \o got.calls
           /\ IF got.raised
              THEN /\ response' = <<ServerError>>
                   /\ pc' = "responded"
                   /\ UNCHANGED report
              ELSE /\ report' = report \o <<AI_HEADER, got.value, DISCLAIMER>>
                   /\ pc' = "reply"
                   /\ UNCHANGED response
    /\ UNCHANGED <<Env, send, i, prices, ai_data_context, lines, handled>>

\* if request.args.get('send') == 'true': send_telegram(report); return
Notify(post) ==
    /\ pc = "reply"
    /\ send = "true"
    /\ LET got == send_telegram(report, post)
           entered == Append(calls, Call("send_telegram", report))
       IN  /\ calls' = entered \o got.calls \o << Call("return", <<>>) >>
           /\ response' = IF got.raised THEN <<ServerError>>
                          ELSE << [body |-> <<SENT_BODY>>, status |-> 200] >>
    /\ pc' = "responded"
    /\ UNCHANGED <<Env, send, i, prices, report, ai_data_context, lines, handled>>

\* return f"<pre>{report}</pre>", 200
Respond ==
    /\ pc = "reply"
    /\ send # "true"
    /\ calls' = Append(calls, Call("return", <<>>))
    /\ response' = << [body |-> <<"<pre>">> \o report \o <<"</pre>">>,
                       status |-> 200] >>
    /\ pc' = "responded"
    /\ UNCHANGED <<Env, send, i, prices, report, ai_data_context, lines, handled>>

Next ==
    \/ \E arg \in SendArgs : Receive(arg)
    \/ \E up \in Upstreams : Fetch(up)
    \/ \E gen \in Generations : Analyse(gen)
    \/ \E post \in Posts : Notify(post)
    \/ Respond

Spec == Init /\ [][Next]_vars

----------------------------------------------------------------------------
\* Vocabulary of the properties

N == Len(demo_portfolio)

Answered == pc = "responded"

\* A credential is configured: set to a non-empty value
Configured(x) == x \notin {None, ""}

Count(op) == Cardinality({k \in DOMAIN calls : calls[k].op = op})

CountArg(op, arg) ==
    Cardinality({k \in DOMAIN calls : calls[k].op = op /\ calls[k].arg = arg})

Ok200(body) == << [body |-> body, status |-> 200] >>

FullReportBody == <<"<pre>">> \o report \o <<"</pre>">>

\* The report is complete: header, one line per position, AI section, disclaimer
ReportComplete ==
    /\ Len(report) = N + 4
    /\ report[1] = REPORT_HEADER
    /\ report[N + 2] = AI_HEADER
    /\ report[N + 4] = DISCLAIMER

\* The calls the handler itself makes, as labels
IsStep(e) ==
    e.op \in {"demo_handler", "get_stock_price_safe", "get_ai_analysis_safe",
              "send_telegram", "return"}

StepLabel(e) ==
    IF e.op = "get_stock_price_safe" THEN e.op \o " " \o e.arg[1] ELSE e.op

Steps ==
    LET top == SelectSeq(calls, IsStep)
    IN  [k \in 1..Len(top) |-> StepLabel(top[k])]

\* handler, one fetch per position in list order, analysis, notifier if
\* asked for, response
Plan ==
    <<"demo_handler">>
    \o [k \in 1..N |-> "get_stock_price_safe " \o demo_portfolio[k].symbol]
    \o <<"get_ai_analysis_safe">>
    \o (IF send = "true" THEN <<"send_telegram">> ELSE <<>>)
    \o <<"return">>

IsPrefix(s, t) == Len(s) <= Len(t) /\ s = SubSeq(t, 1, Len(s))

\* The phase of the request an operation belongs to
Stage(e) ==
    CASE e.op = "demo_handler" -> 0
      [] e.op \in {"get_stock_price_safe", "time.sleep", "yf.Ticker",
                   "fast_info.last_price", "history"} -> 1
      [] e.op \in {"get_ai_analysis_safe", "generate_content"} -> 2
      [] e.op \in {"send_telegram", "requests.post", "logger.error"} -> 3
      [] e.op = "logger.warning" -> IF e.arg = <<"send_telegram">> THEN 3 ELSE 1
      [] e.op = "return" -> 4

\* The data context the handler must have built from the first k prices
RECURSIVE ExpectedContext(_)
ExpectedContext(k) ==
    IF k = 0 THEN <<>>
    ELSE ExpectedContext(k - 1)
         \o (IF prices[k].kind = "float" /\ prices[k].v > 0
             THEN << demo_portfolio[k].symbol \o ": price"
                     \o ReprFloat(prices[k].v) \o ", cost"
                     \o NatStr(demo_portfolio[k].cost) \o "\n" >>
             ELSE <<>>)

----------------------------------------------------------------------------
\* Properties

\* C1: with both messaging credentials configured, a request with send = "true"
\* issues exactly one messaging POST and is answered with the send
\* confirmation and status 200; a request with send absent or of any other
\* value issues no messaging POST and is answered with the full report and
\* status 200.
C1_SendOrReport ==
    (Answered /\ Configured(TELEGRAM_TOKEN) /\ Configured(CHAT_ID)) =>
        IF send = "true"
        THEN Count("requests.post") = 1 /\ response = Ok200(<<SENT_BODY>>)
        ELSE /\ Count("requests.post") = 0
             /\ response = Ok200(FullReportBody)
             /\ ReportComplete

C1_Witness ==
    /\ Answered /\ Configured(TELEGRAM_TOKEN) /\ Configured(CHAT_ID)
    /\ send = "true"
    /\ Count("requests.post") = 1
    /\ response = Ok200(<<SENT_BODY>>)

\* C2: every handled request is answered with status 200, whatever the external
\* calls do (each quote lookup, the inference call and the messaging POST may
\* succeed or raise) and whichever credentials are present: a request in
\* flight can always take its next step, nothing is answered before the
\* handler ends, and its answer is never an error.
C2_Always200 ==
    /\ Answered => (Len(response) = 1 /\ response[1].status = 200)
    /\ ~Answered => response = <<>>
    /\ pc \in {"loop", "analysis", "reply"} => ENABLED Next

\* Every external call of one request raised, and the answer is still 200
C2_Witness ==
    /\ Answered
    /\ Configured(GEMINI_KEY) /\ Configured(TELEGRAM_TOKEN) /\ Configured(CHAT_ID)
    /\ \A k \in 1..N : CountArg("logger.warning", <<demo_portfolio[k].symbol>>) = 1
    /\ Count("generate_content") = 1
    /\ report[N + 3] = "AI analysis temporarily unavailable (503 unavailable)"
    /\ Count("logger.error") = 1
    /\ response[1].status = 200

\* C3: a position whose fetched price is 0.0 gets the "no quote available" line
\* with the neutral icon, has no profit computed and adds nothing to the data
\* context; a position whose price is > 0 adds exactly one line to the report
\* and one to the data context.
C3_NoQuoteLine ==
    /\ Len(lines) = Len(prices)
    /\ pc \in {"loop", "analysis"} => Len(report) = 1 + Len(prices)
    /\ ai_data_context = ExpectedContext(Len(prices))
    /\ \A k \in 1..Len(prices) :
          LET sym == demo_portfolio[k].symbol
              blank == "(white) " \o sym \o ": no quote available\n"
          IN  /\ prices[k] = Float(0) =>
                    /\ report[k + 1] = blank
                    /\ lines[k].icon = "(white)"
                    /\ lines[k].profit = <<>>
              /\ (prices[k].kind = "float" /\ prices[k].v > 0) =>
                    /\ report[k + 1] # blank
                    /\ report[k + 1] = lines[k].chunk
                    /\ lines[k].icon \in {"(green)", "(red)"}
                    /\ Len(lines[k].profit) = 1

\* The first fetch failed, the second gave a quote
C3_Witness ==
    /\ Answered
    /\ prices = << Float(0), Float(66000) >>
    /\ report[2] = "(white) 2330.TW: no quote available\n"
    /\ ai_data_context = << "AAPL: price660.0, cost150\n" >>

\* C4: when GEMINI_API_KEY is absent (unset or empty), get_ai_analysis_safe
\* returns exactly the fixed warning string whatever the summary, and no
\* inference call is attempted.
C4_NoKeyNoCall ==
    (GEMINI_KEY \in {None, ""} /\ Count("get_ai_analysis_safe") = 1) =>
        /\ Count("generate_content") = 0
        /\ report[N + 3] = AI_KEY_WARNING

C4_Witness ==
    /\ GEMINI_KEY = None
    /\ Answered
    /\ ai_data_context # <<>>
    /\ Count("generate_content") = 0
    /\ report[N + 3] = AI_KEY_WARNING

\* C5: when TELEGRAM_TOKEN or TELEGRAM_CHAT_ID is absent, send_telegram makes no
\* outbound call and returns without error, whatever the message.
C5_NoCredentialNoPost ==
    ((~Configured(TELEGRAM_TOKEN) \/ ~Configured(CHAT_ID))
        /\ Count("send_telegram") = 1) =>
        /\ Count("requests.post") = 0
        /\ Answered /\ response[1].status = 200

\* Only the chat id is missing
C5_Witness ==
    /\ Configured(TELEGRAM_TOKEN) /\ CHAT_ID = None
    /\ Count("send_telegram") = 1
    /\ Count("requests.post") = 0
    /\ Answered

\* C6: get_stock_price_safe returns a non-negative price for every ticker and
\* every behaviour of the provider.
C6_NonNegativePrice ==
    \A k \in 1..Len(prices) : prices[k].kind = "float" /\ prices[k].v >= 0

\* C7 as stated: for every position with price > 0 the profit percentage in its
\* report line equals (price - cost) / cost * 100 (to the precision printed),
\* the icon is green when that value is >= 0 and red otherwise, and 2330.TW
\* fetched at 660.0 shows +10.0%.
C7_ProfitPlusSign ==
    \A k \in 1..Len(prices) :
        (prices[k].kind = "float" /\ prices[k].v > 0) =>
            LET cost == demo_portfolio[k].cost
                num == prices[k].v - 100 * cost
                below == (10 * Abs(num)) \div cost
                near == {t \in {below, below + 1} :
                            2 * Abs(t * cost - 10 * Abs(num)) <= cost}
            IN  /\ \E t \in near :
                      lines[k].shown \in {TenthsText(num < 0, t),
                                          "+" \o TenthsText(num < 0, t)}
                /\ lines[k].icon = IF num >= 0 THEN "(green)" ELSE "(red)"
                /\ (k = 1 /\ prices[k].v = 66000) => lines[k].shown = "+10.0"

\* C7: for every position with price > 0 the profit printed in its report line
\* is (price - cost) / cost * 100 rounded to one decimal, with a minus sign for
\* a negative value and no sign otherwise; the icon is green when the
\* unrounded value is >= 0 and red otherwise; 2330.TW fetched at 660.0 shows
\* 10.0% with the green icon.
C7_ProfitRounded ==
    \A k \in 1..Len(prices) :
        (prices[k].kind = "float" /\ prices[k].v > 0) =>
            LET cost == demo_portfolio[k].cost
                sym == demo_portfolio[k].symbol
                num == prices[k].v - 100 * cost
                below == (10 * Abs(num)) \div cost
                near == {t \in {below, below + 1} :
                            2 * Abs(t * cost - 10 * Abs(num)) <= cost}
            IN  /\ lines[k].profit = << [num |-> num, den |-> cost] >>
                /\ \E t \in near : lines[k].shown = TenthsText(num < 0, t)
                /\ lines[k].icon = IF num >= 0 THEN "(green)" ELSE "(red)"
                /\ report[k + 1] =
                       lines[k].icon \o " " \o sym \o ": price "
                       \o FormatF2(prices[k].v) \o " (P/L " \o lines[k].shown
                       \o "%)\n"
                /\ (k = 1 /\ prices[k].v = 66000) =>
                       report[k + 1] = "(green) 2330.TW: price 660.00 (P/L 10.0%)\n"

C7_Witness ==
    /\ Len(prices) >= 1
    /\ prices[1] = Float(66000)
    /\ lines[1].shown = "10.0"
    /\ lines[1].icon = "(green)"

\* C8: within one request the operations are strictly in line and never
\* repeated: one quote fetch per position in list order (each provider call
\* at most once per position, also after a failure), then one invocation of
\* the analysis requester, then at most one notifier invocation, then the
\* response.
C8_LinearNoRetry ==
    /\ IsPrefix(Steps, Plan)
    /\ Answered => Steps = Plan
    /\ \A k \in 1..(Len(calls) - 1) : Stage(calls[k]) <= Stage(calls[k + 1])
    /\ \A k \in 1..N :
          \A op \in {"yf.Ticker", "fast_info.last_price", "history"} :
              CountArg(op, <<demo_portfolio[k].symbol>>) <= 1
    /\ Count("generate_content") <= 1
    /\ Count("requests.post") <= 1

\* A request whose first fast quote raised, answered after one POST
C8_Witness ==
    /\ Answered
    /\ send = "true"
    /\ CountArg("logger.warning", <<"2330.TW">>) = 1
    /\ CountArg("fast_info.last_price", <<"2330.TW">>) = 1
    /\ Count("generate_content") = 1
    /\ Count("requests.post") = 1
    /\ Steps = Plan

\* C9: a request with send = "true" is answered with the send confirmation and
\* status 200 whether or not a message was delivered: also when a messaging
\* credential is absent (no POST at all) and when the POST raises; the report
\* is then not in the answer.
C9_ConfirmationRegardless ==
    (Answered /\ send = "true") =>
        /\ response = Ok200(<<SENT_BODY>>)
        /\ response[1].body # FullReportBody
        /\ Count("send_telegram") = 1
        /\ (~Configured(TELEGRAM_TOKEN) \/ ~Configured(CHAT_ID))
               => Count("requests.post") = 0

\* Confirmation although the token is missing and nothing was posted
C9_Witness ==
    /\ Answered /\ send = "true"
    /\ TELEGRAM_TOKEN = None /\ Configured(CHAT_ID)
    /\ Count("requests.post") = 0
    /\ ReportComplete
    /\ response = Ok200(<<SENT_BODY>>)

\* C10: the analysis requester is invoked exactly once per request, also when
\* every quote fetch failed: with GEMINI_API_KEY configured and all fetched
\* prices 0.0, one inference call is issued and it carries the fixed
\* instruction block followed by an empty data context.
C10_AnalysisOnce ==
    /\ pc \in {"idle", "loop", "analysis"} => Count("get_ai_analysis_safe") = 0
    /\ pc \in {"reply", "responded"} /\ handled > 0 =>
          /\ Count("get_ai_analysis_safe") = 1
          /\ (Configured(GEMINI_KEY) /\ \A k \in 1..N : prices[k] = Float(0)) =>
                /\ Count("generate_content") = 1
                /\ CountArg("generate_content", <<instruction>>) = 1

C10_Witness ==
    /\ Answered
    /\ Configured(GEMINI_KEY)
    /\ prices = << Float(0), Float(0) >>
    /\ CountArg("generate_content", <<instruction>>) = 1

====
